---- MODULE Spec2Model ----
(***************************************************************************)
(* Model of src/src/Component/BackgroundRemover.jsx: the React component   *)
(* BackgroundRemover (state selectedImage, processedImage, method,         *)
(* loading), its event handlers, the two asynchronous processing paths     *)
(* (BodyPix segmentation + alpha masking, and fetch + removeBackground),   *)
(* and the masking loop itself as a pure function on pixel buffers.        *)
(*                                                                         *)
(* Two specifications:                                                     *)
(*   Spec      the component as an event-driven state machine; every       *)
(*             action is one browser task (a handler, or the continuation  *)
(*             of an awaited promise together with the microtasks that     *)
(*             follow it);                                                 *)
(*   CompSpec  the masking pass (lines 68-78) applied to every buffer and  *)
(*             every mask within the bounds.                               *)
(***************************************************************************)
EXTENDS Integers, Sequences, FiniteSets, TLC

VARIABLES
  selectedImage,   \* useState(null), line 7: NoImage or an image handle
  processedImage,  \* useState(null), line 8: NullProcessed or a result
  method,          \* useState("tensorflow"), line 9
  loading,         \* useState(false), line 10
  inflight,        \* processImage calls suspended at an await
  rbIsFunction,    \* typeof removeBackground === "function" (line 108)
  event,           \* history: <<handler or continuation that ran last, outcome>>
  buf,             \* imageData.data of the masking pass
  segmentation,    \* segmentation.data of the masking pass
  input,           \* history: buf before the first pass
  firstOut,        \* history: buf after the first pass
  passes,          \* number of masking passes applied
  oob,             \* mask indices read outside segmentation.data
  produced         \* putImageData/toDataURL ran (line 77-78)

uiVars == <<selectedImage, processedImage, method, loading, inflight,
            rbIsFunction, event>>
compVars == <<buf, segmentation, input, firstOut, passes, oob, produced>>
vars == <<selectedImage, processedImage, method, loading, inflight,
          rbIsFunction, event, buf, segmentation, input, firstOut, passes,
          oob, produced>>

----------------------------------------------------------------------------
(* Bounds *)

MaxPix == 2       \* pixels per image (canvas.width * canvas.height)
MaxImg == 2       \* distinct image handles the user can choose
MaxPasses == 2    \* masking passes applied in CompSpec

----------------------------------------------------------------------------
(* Values *)

NoImage == 0
Images == 1..MaxImg
Methods == {"tensorflow", "imgly"}
Chan == {0, 255}
MaskVal == {0, 1}
Undefined == 2

Length(f) == Cardinality(DOMAIN f)

EmptyData == [k \in {} |-> 0]

Buffers == UNION {[0..(4 * n - 1) -> Chan] : n \in 1..MaxPix}

Masks == UNION {[0..(l - 1) -> MaskVal] : l \in 0..(MaxPix + 1)}

NullProcessed == [src |-> NoImage, by |-> "null", data |-> EmptyData]

\* The bitmap ctx.drawImage(img, 0, 0) puts on the canvas for image handle s.
Pixels(s) ==
  [k \in 0..(4 * MaxPix - 1) |->
     IF k % 4 = 3 THEN 255 ELSE IF (k + s) % 2 = 0 THEN 255 ELSE 0]

----------------------------------------------------------------------------
(* The masking loop, lines 71-75 *)

\* segmentation.data[p]: a read past the end of a typed array is undefined
MaskAt(seg, p) == IF p \in DOMAIN seg THEN seg[p] ELSE Undefined

\* line 72: segmentation.data[i / 4] === 0
IsBackground(seg, p) == MaskAt(seg, p) = 0

ClearAlpha_WrongChannel(d, i) == [d EXCEPT ![i + 2] = 0]

ClearAlpha_Invert(d, i) == [d EXCEPT ![i + 3] = 255 - @]

\* line 73: data[i + 3] = 0
ClearAlpha(d, i) == [d EXCEPT ![i + 3] = 0]

RECURSIVE Loop(_, _, _)
\* line 71: for (let i = 0; i < data.length; i += 4)
Loop(d, seg, i) ==
  IF i < Length(d)
    THEN Loop(IF IsBackground(seg, i \div 4) THEN ClearAlpha(d, i) ELSE d,
              seg, i + 4)
    ELSE d

Composite(d, seg) == Loop(d, seg, 0)

\* the indices i / 4 the loop reads that are not elements of segmentation.data
OutOfBoundsReads(d, seg) ==
  {i \div 4 : i \in {k \in 0..(Length(d) - 1) : k % 4 = 0}} \ DOMAIN seg

----------------------------------------------------------------------------
(* The component *)

Disabled_NoLoading == selectedImage = NoImage

\* line 189: disabled={!selectedImage || loading}
Disabled == selectedImage = NoImage \/ loading

\* lines 14-19: files[0] is undefined when the dialog is cancelled
handleImageUpload ==
  \E file \in Images \cup {NoImage} :
    /\ selectedImage' = IF file # NoImage THEN file ELSE selectedImage
    /\ event' = <<"handleImageUpload", "user">>
    /\ UNCHANGED <<processedImage, method, loading, inflight, rbIsFunction>>
    /\ UNCHANGED compVars

\* lines 22-27: prompt returns null or "" when cancelled or left empty
handleURLUpload ==
  \E url \in Images \cup {NoImage} :
    /\ selectedImage' = IF url # NoImage THEN url ELSE selectedImage
    /\ event' = <<"handleURLUpload", "user">>
    /\ UNCHANGED <<processedImage, method, loading, inflight, rbIsFunction>>
    /\ UNCHANGED compVars

\* lines 171 and 179
setMethod ==
  \E m \in Methods :
    /\ method' = m
    /\ event' = <<"setMethod", "user">>
    /\ UNCHANGED <<selectedImage, processedImage, loading, inflight,
                   rbIsFunction>>
    /\ UNCHANGED compVars

\* lines 48-50: runs synchronously up to await bodyPix.load()
processWithTensorFlow(op) ==
  [op EXCEPT !.pc = "bodyPix.load", !.calls = @ \cup {"bodyPix.load"}]

\* lines 85-95: runs synchronously up to await fetch(selectedImage)
processWithImgly(op) ==
  IF op.img = NoImage
    THEN [op EXCEPT !.pc = "returned"]
    ELSE [op EXCEPT !.pc = "fetch", !.src = op.img,
                    !.calls = @ \cup {"fetch"}]

Dispatch_Inverted(m, op) ==
  IF m # "tensorflow" THEN processWithTensorFlow(op) ELSE processWithImgly(op)

\* lines 35-39
Dispatch(m, op) ==
  IF m = "tensorflow" THEN processWithTensorFlow(op) ELSE processWithImgly(op)

\* the operation record of one processImage call: mode and img are the
\* method and selectedImage of the render whose closure is running
NewOp ==
  [mode |-> method, img |-> selectedImage, src |-> NoImage, pc |-> "start",
   calls |-> {}]

processImage_NoGuard ==
  /\ event' = <<"processImage", "user">>
  /\ LET op == Dispatch(method, NewOp)
     IN IF op.pc = "returned"
          THEN UNCHANGED <<loading, inflight>>
          ELSE /\ loading' = TRUE
               /\ inflight' = Append(inflight, op)
  /\ UNCHANGED <<selectedImage, processedImage, method, rbIsFunction>>
  /\ UNCHANGED compVars

\* lines 30-39, up to the first await
processImage ==
  /\ event' = <<"processImage", "user">>
  /\ IF selectedImage = NoImage
       THEN UNCHANGED <<loading, inflight>>
       ELSE LET op == Dispatch(method, NewOp)
            IN IF op.pc = "returned"
                 THEN UNCHANGED <<loading, inflight>>
                 ELSE /\ loading' = TRUE
                      /\ inflight' = Append(inflight, op)
  /\ UNCHANGED <<selectedImage, processedImage, method, rbIsFunction>>
  /\ UNCHANGED compVars

\* lines 186-192: a click on the button, which the browser delivers only
\* while the button is not disabled
ClickRemoveBackground == ~Disabled /\ processImage

\* processImage called with nothing selected (the guard of line 31)
InvokeUnselected == selectedImage = NoImage /\ processImage

RemoveAt(s, i) == [k \in 1..(Len(s) - 1) |-> IF k < i THEN s[k] ELSE s[k + 1]]

\* line 44, reached when the awaited processWith... promise resolves
Finish(i) ==
  /\ inflight' = RemoveAt(inflight, i)
  /\ loading' = FALSE

CatchAndFinish_Clearing(i) ==
  /\ processedImage' = NullProcessed
  /\ Finish(i)

\* lines 79-81 and 127-129 (log only), then line 44
CatchAndFinish(i) ==
  /\ UNCHANGED processedImage
  /\ Finish(i)

\* lines 78 and 126, then line 44
SucceedAndFinish(i, result) ==
  /\ processedImage' = result
  /\ Finish(i)

Suspend(i, op) ==
  /\ inflight' = [inflight EXCEPT ![i] = op]
  /\ UNCHANGED <<loading, processedImage>>

ImageSrc_Live(op) == selectedImage

\* lines 53 and 95: selectedImage as the running closure sees it
ImageSrc(op) == op.img

\* line 50 settles; lines 51-55
BodyPixLoadSettle(i) ==
  /\ inflight[i].pc = "bodyPix.load"
  /\ \E o \in {"resolve", "reject"} :
       /\ event' = <<"bodyPix.load", o>>
       /\ IF o = "resolve"
            THEN Suspend(i, [inflight[i] EXCEPT !.pc = "img.onload",
                                               !.src = ImageSrc(inflight[i])])
            ELSE CatchAndFinish(i)
  /\ UNCHANGED <<selectedImage, method, rbIsFunction>>
  /\ UNCHANGED compVars

\* line 55: only img.onload resolves the promise; an error event has no
\* handler and leaves it pending.  On load, lines 57-65.
ImageSettle(i) ==
  /\ inflight[i].pc = "img.onload"
  /\ \E o \in {"load", "error"} :
       /\ event' = <<"img", o>>
       /\ IF o = "load"
            THEN Suspend(i, [inflight[i] EXCEPT
                               !.pc = "segmentPerson",
                               !.calls = @ \cup {"segmentPerson"}])
            ELSE Suspend(i, [inflight[i] EXCEPT !.pc = "img.onerror"])
  /\ UNCHANGED <<selectedImage, method, rbIsFunction>>
  /\ UNCHANGED compVars

\* line 62 settles; lines 67-78.  A result without a data array makes
\* line 72 throw.
SegmentSettle(i) ==
  /\ inflight[i].pc = "segmentPerson"
  /\ \/ \E o \in {"reject", "malformed"} :
          /\ event' = <<"segmentPerson", o>>
          /\ CatchAndFinish(i)
     \/ \E seg \in Masks :
          /\ event' = <<"segmentPerson", "mask">>
          /\ SucceedAndFinish(i,
               [src |-> inflight[i].src, by |-> "tensorflow",
                data |-> Composite(Pixels(inflight[i].src), seg)])
  /\ UNCHANGED <<selectedImage, method, rbIsFunction>>
  /\ UNCHANGED compVars

\* line 95 settles; lines 97-99
FetchSettle(i) ==
  /\ inflight[i].pc = "fetch"
  /\ \E o \in {"ok", "notOk", "reject"} :
       /\ event' = <<"fetch", o>>
       /\ IF o = "ok"
            THEN Suspend(i, [inflight[i] EXCEPT !.pc = "blob"])
            ELSE CatchAndFinish(i)
  /\ UNCHANGED <<selectedImage, method, rbIsFunction>>
  /\ UNCHANGED compVars

\* line 99 settles; lines 100-116
BlobSettle(i) ==
  /\ inflight[i].pc = "blob"
  /\ \E o \in {"resolve", "reject"} :
       IF o = "resolve" /\ rbIsFunction
         THEN /\ event' = <<"blob", "resolve">>
              /\ Suspend(i, [inflight[i] EXCEPT
                               !.pc = "removeBackground",
                               !.calls = @ \cup {"removeBackground"}])
         ELSE /\ event' = <<"blob", IF o = "resolve" THEN "unavailable"
                                                     ELSE "reject">>
              /\ CatchAndFinish(i)
  /\ UNCHANGED <<selectedImage, method, rbIsFunction>>
  /\ UNCHANGED compVars

ValidResult_NonNull(r) == r # "null"

\* line 120: result && result instanceof Blob
ValidResult(r) == r = "Blob"

\* line 116 settles; lines 118-126
RemoveSettle(i) ==
  /\ inflight[i].pc = "removeBackground"
  /\ \E r \in {"reject", "null", "notBlob", "Blob"} :
       /\ event' = <<"removeBackground", r>>
       /\ IF r # "reject" /\ ValidResult(r)
            THEN SucceedAndFinish(i,
                   [src |-> inflight[i].src, by |-> "imgly",
                    data |-> EmptyData])
            ELSE CatchAndFinish(i)
  /\ UNCHANGED <<selectedImage, method, rbIsFunction>>
  /\ UNCHANGED compVars

Settle ==
  \E i \in 1..Len(inflight) :
    \/ BodyPixLoadSettle(i)
    \/ ImageSettle(i)
    \/ SegmentSettle(i)
    \/ FetchSettle(i)
    \/ BlobSettle(i)
    \/ RemoveSettle(i)

CompIdle ==
  /\ buf = EmptyData
  /\ segmentation = EmptyData
  /\ input = EmptyData
  /\ firstOut = EmptyData
  /\ passes = 0
  /\ oob = {}
  /\ produced = FALSE

UiIdle ==
  /\ selectedImage = NoImage
  /\ processedImage = NullProcessed
  /\ method = "tensorflow"
  /\ loading = FALSE
  /\ inflight = <<>>
  /\ event = <<"mount", "user">>

Init ==
  /\ UiIdle
  /\ rbIsFunction \in BOOLEAN
  /\ CompIdle

Next ==
  \/ handleImageUpload
  \/ handleURLUpload
  \/ setMethod
  \/ ClickRemoveBackground
  \/ InvokeUnselected
  \/ \E i \in 1..Len(inflight) : BodyPixLoadSettle(i)
  \/ \E i \in 1..Len(inflight) : ImageSettle(i)
  \/ \E i \in 1..Len(inflight) : SegmentSettle(i)
  \/ \E i \in 1..Len(inflight) : FetchSettle(i)
  \/ \E i \in 1..Len(inflight) : BlobSettle(i)
  \/ \E i \in 1..Len(inflight) : RemoveSettle(i)

Spec == Init /\ [][Next]_vars

\* every promise of a backend eventually settles; user actions are not forced
FairSpec == Spec /\ WF_vars(Settle)

----------------------------------------------------------------------------
(* The masking pass on its own *)

CompInit ==
  /\ UiIdle
  /\ rbIsFunction = TRUE
  /\ buf \in Buffers
  /\ segmentation \in Masks
  /\ input = buf
  /\ firstOut = buf
  /\ passes = 0
  /\ oob = {}
  /\ produced = FALSE

\* lines 68-78 on the current canvas content with the same segmentation
ApplyCompositor ==
  /\ passes < MaxPasses
  /\ buf' = Composite(buf, segmentation)
  /\ firstOut' = IF passes = 0 THEN Composite(buf, segmentation) ELSE firstOut
  /\ oob' = oob \cup OutOfBoundsReads(buf, segmentation)
  /\ produced' = TRUE
  /\ passes' = passes + 1
  /\ UNCHANGED <<segmentation, input>>
  /\ UNCHANGED uiVars

CompNext == ApplyCompositor

CompSpec == CompInit /\ [][CompNext]_vars

----------------------------------------------------------------------------
(* Properties of the masking pass (CompSpec) *)

Matching == 4 * Length(segmentation) = Length(input)

\* C1: for a buffer and a mask of the same pixel count, the masking pass
\* leaves a buffer of the same size in which the alpha of every pixel whose
\* mask entry is 0 is 0, and every other value (R, G, B of every pixel, and
\* the alpha of every pixel whose mask entry is not 0) is the input's.
C1_MaskingContract ==
  (passes >= 1 /\ Matching) =>
    /\ DOMAIN firstOut = DOMAIN input
    /\ \A p \in DOMAIN segmentation :
         /\ \A c \in 0..2 : firstOut[4 * p + c] = input[4 * p + c]
         /\ segmentation[p] = 0 => firstOut[4 * p + 3] = 0
         /\ segmentation[p] # 0 => firstOut[4 * p + 3] = input[4 * p + 3]

C1_Witness ==
  /\ passes = 1
  /\ Matching
  /\ \E p \in DOMAIN segmentation :
       segmentation[p] = 0 /\ input[4 * p + 3] # 0 /\ buf[4 * p + 3] = 0
  /\ \E q \in DOMAIN segmentation :
       segmentation[q] # 0 /\ buf[4 * q + 3] # 0

\* C2: with a mask whose length differs from the pixel count, the masking
\* pass reads no mask index out of bounds and produces no image.
C2_DimensionMismatch ==
  (passes >= 1 /\ ~Matching) => (oob = {} /\ ~produced)

\* C3: with matching lengths, a second masking pass with the same mask
\* leaves the output of the first pass as it is.
C3_Idempotent ==
  (passes = 2 /\ Matching) => buf = firstOut

C3_Witness ==
  /\ passes = 2
  /\ Matching
  /\ firstOut # input
  /\ buf = firstOut

----------------------------------------------------------------------------
(* Properties of the component (Spec, FairSpec) *)

FailureOutcomes ==
  {"reject", "malformed", "notOk", "unavailable", "null", "notBlob"}

SuccessOutcomes == {"mask", "Blob"}

UserEvents == {"handleImageUpload", "handleURLUpload", "setMethod"}

\* C4: processImage called while no image is selected, in either mode,
\* starts no backend call and changes nothing of the component's state.
C4_NoImageNoEffect ==
  [][(selectedImage = NoImage /\ event' = <<"processImage", "user">>) =>
       UNCHANGED <<selectedImage, processedImage, method, loading, inflight>>
    ]_vars

C4_Witness ==
  /\ event = <<"processImage", "user">>
  /\ selectedImage = NoImage
  /\ method = "imgly"
  /\ ~loading
  /\ inflight = <<>>
  /\ processedImage = NullProcessed

\* C5: at most one processing operation is in flight in every reachable
\* state, and while one is in flight loading is true.
C5_AtMostOneInFlight ==
  /\ Len(inflight) <= 1
  /\ Len(inflight) = 1 => loading

C5_Witness ==
  /\ loading
  /\ Len(inflight) = 1
  /\ Disabled
  /\ selectedImage # inflight[1].img
  /\ event[1] \in UserEvents

\* C6: whenever loading is true, it is eventually false again.
C6_EventuallyIdle == loading ~> ~loading

\* what a finished result must be: the whole bitmap of its source, with
\* R, G, B untouched, or the Blob removeBackground returned
Complete(p) ==
  /\ p.src \in Images
  /\ \/ p.by = "imgly"
     \/ /\ p.by = "tensorflow"
        /\ DOMAIN p.data = DOMAIN Pixels(p.src)
        /\ \A k \in DOMAIN p.data :
             k % 4 # 3 => p.data[k] = Pixels(p.src)[k]

\* C7: processedImage changes only in the step that ends an operation
\* successfully, to a complete result, and a failing operation leaves
\* processedImage as it was and ends with loading false.
C7_NoPartialResult ==
  [][/\ processedImage' # processedImage =>
          /\ event'[2] \in SuccessOutcomes
          /\ Len(inflight') < Len(inflight)
          /\ ~loading'
          /\ Complete(processedImage')
     /\ event'[2] \in FailureOutcomes =>
          /\ processedImage' = processedImage
          /\ Len(inflight') < Len(inflight)
          /\ ~loading'
    ]_vars

C7_Witness ==
  /\ event = <<"removeBackground", "notBlob">>
  /\ processedImage = NullProcessed
  /\ ~loading
  /\ inflight = <<>>

BackendCalls(m) ==
  IF m = "tensorflow" THEN {"bodyPix.load", "segmentPerson"}
                      ELSE {"fetch", "removeBackground"}

\* C8: every operation in flight has called the backend of the mode that
\* was selected when it was triggered, and no other, whatever the mode is
\* now.
C8_BackendOfTriggerMode ==
  \A i \in 1..Len(inflight) :
    /\ inflight[i].calls # {}
    /\ inflight[i].calls \subseteq BackendCalls(inflight[i].mode)

C8_Witness ==
  \E i \in 1..Len(inflight) :
    /\ inflight[i].mode = "tensorflow"
    /\ method = "imgly"
    /\ event = <<"img", "load">>
    /\ "segmentPerson" \in inflight[i].calls

\* C9: an operation that succeeds sets processedImage to the result for the
\* image that was selected when it was triggered.
C9_ImageOfTrigger ==
  [][event'[2] \in SuccessOutcomes =>
       \E i \in 1..Len(inflight) :
         /\ inflight' = RemoveAt(inflight, i)
         /\ processedImage'.src = inflight[i].img
    ]_vars

C9_Witness ==
  /\ event[2] \in SuccessOutcomes
  /\ ~loading
  /\ processedImage.src # NoImage
  /\ selectedImage # processedImage.src

\* C10: once processedImage is not null it is never null again.
C10_NeverCleared ==
  [][processedImage # NullProcessed => processedImage' # NullProcessed]_vars

C10_Witness ==
  /\ processedImage # NullProcessed
  /\ event[2] \in FailureOutcomes
  /\ selectedImage # processedImage.src
  /\ ~loading

====
